---- MODULE Spec2Model ----
(***************************************************************************)
(* Model of examples/DMXOutputUsingUSART/DMXOutputUsingUSART.ino: the      *)
(* Art-Net / sACN to DMX-512 bridge sketch.  setup() and loop() run on the *)
(* main thread; the USART transmitter started by LXSerialDMX.startOutput() *)
(* runs from its interrupt and reads the same slot array that loop()       *)
(* writes with setSlot().                                                  *)
(***************************************************************************)
EXTENDS Integers, Sequences, FiniteSets, TLC

\* ---------------------------------------------------------------- bounds
\* DMX universe size (512 on the device), scaled.
UniverseSize == 4
\* Number of distinct leases the DHCP server can hand out.
MaxLease == 2

\* ------------------------------------------------------- program constants
LOW == 0
HIGH == 1
RXTX_PIN == 2
RESULT_NONE == 0
RESULT_DMX_RECEIVED == 1
RESULT_PACKET_COMPLETE == 2
\* last octet of IP_ADDRESS and prefix length of SUBNET_MASK
IP_ADDRESS == 20
SUBNET_MASK == 24
ARTNET_PORT == 6454
SACN_PORT == 5568

Slots == 1..UniverseSize
\* Slot levels (0..255 on the device), sampled at the two extremes.
Levels == {0, 255}
\* Universe numbers on the network: the first universe of Art-Net and of sACN.
Universes == {0, 1}

VARIABLES
    USE_DHCP,        \* #define USE_DHCP (BOOLEAN)
    USE_SACN,        \* #define USE_SACN (BOOLEAN)
    USE_MULTICAST,   \* whether USE_MULTICAST is defined
    traffic,         \* what the network delivers while the bridge runs: "any", "fade", "none"
    script,          \* datagrams already queued on the socket at power-up
    inbox,           \* the part of script not yet read
    pc,              \* position of the main thread in setup()/loop()
    monitorstate,    \* global monitorstate
    use_multicast,   \* global use_multicast
    ethernet,        \* Ethernet: [up, ip, mask]
    interface,       \* *interface: [kind, ip, mask, nodeName, levels]
    eUDP,            \* eUDP: [bound, port, multicast, binds]
    directionPin,    \* LXSerialDMX direction pin (0: not set)
    outputStarted,   \* LXSerialDMX.startOutput() has run
    dmx,             \* LXSerialDMX slot array: the Channel Buffer
    result,          \* loop(): result
    i,               \* loop(): i
    dhcpr,           \* loop(): dhcpr, 0 outside its block
    reconfigured,    \* history: the lease block just left called setLocalIP
    sent,            \* poll replies put on the wire
    txpos,           \* transmitter: number of data slots of the frame sent
    frame,           \* transmitter: data bytes of the frame on the wire
    frameStart,      \* history: Channel Buffer when that frame began
    lastRead,        \* history: <<slot, value, expected>> of the last tx read
    lastWrite,       \* history: last value handed to a completed setSlot
    prior,           \* history: Channel Buffer when this iteration began
    rx,              \* history: header of the datagram this iteration read
    repeat,          \* history: this packet equals the one applied just before
    appliedOdd       \* history: an odd number of DMX packets was accepted so far

vars == <<USE_DHCP, USE_SACN, USE_MULTICAST, traffic, script, inbox, pc,
          monitorstate, use_multicast, ethernet, interface, eUDP,
          directionPin, outputStarted, dmx, result, i, sent, txpos, frame,
          frameStart, lastRead, lastWrite, prior, rx, repeat, dhcpr,
          reconfigured, appliedOdd>>

\* ------------------------------------------------------------- datagrams
PacketLevels == UNION {[1..n -> Levels] : n \in 0..(UniverseSize + 1)}

NoDatagram == [kind |-> "None", universe |-> 0, levels |-> <<>>]
ArtPoll == [kind |-> "ArtPoll", universe |-> 0, levels |-> <<>>]
Junk == [kind |-> "Junk", universe |-> 0, levels |-> <<>>]

DmxDatagrams == [kind : {"ArtDmx", "E131"}, universe : Universes, levels : PacketLevels]

Datagrams == DmxDatagrams \cup {ArtPoll, Junk}

\* What the history keeps of a datagram: its header, and its levels when the
\* decoder took it as DMX data.
Header(d, taken) ==
    [kind |-> d.kind, universe |-> d.universe, count |-> Len(d.levels),
     levels |-> IF taken THEN d.levels ELSE <<>>]

NoHeader == Header(NoDatagram, FALSE)

\* Mutant of blinkLED: the pin is driven HIGH instead of toggled.
blinkLEDOn(ms) == HIGH

\* --------------------------------------------------------- status indicator
\* blinkLED(): the new value of monitorstate
blinkLED(ms) == IF ms = LOW THEN HIGH ELSE LOW

\* ------------------------------------------------------------ network stack
\* The address data of DHCP lease k.
Lease(k) == [up |-> TRUE, ip |-> k, mask |-> 16 + 8 * (k % 2)]

StaticLease == [up |-> TRUE, ip |-> IP_ADDRESS, mask |-> SUBNET_MASK]

NoLease == [up |-> FALSE, ip |-> 0, mask |-> 0]

\* Ethernet.maintain() return codes: 0 nothing, 1 renew failed, 2 renew
\* success, 3 rebind failed, 4 rebind success.
DhcpResults == 0..4

\* Mutant of the success test: a failed rebind (3) is taken for a success.
RenewOrRebindSuccessLoose(code) == code >= 2

\* if (( dhcpr == 4 ) || (dhcpr == 2))
RenewOrRebindSuccess(code) == (code = 4) \/ (code = 2)

\* ------------------------------------------------------------------ decoders
NullInterface == [kind |-> "null", ip |-> 0, mask |-> 0, nodeName |-> "", levels |-> <<>>]

\* new LXSACN()
NewLXSACN == [kind |-> "sacn", ip |-> 0, mask |-> 0, nodeName |-> "", levels |-> <<>>]

\* new LXArtNet(address, subnet_mask)
NewLXArtNet(address, mask) ==
    [kind |-> "artnet", ip |-> address, mask |-> mask, nodeName |-> "", levels |-> <<>>]

\* LXArtNet::setLocalIP(address, subnet_mask)
setLocalIP(iface, address, mask) == [iface EXCEPT !.ip = address, !.mask = mask]

\* LXArtNet::setNodeName(name)
setNodeName(iface, name) == [iface EXCEPT !.nodeName = name]

\* The poll reply LXArtNet::send_art_poll_reply(&eUDP) hands to the socket.
PollReply(iface, udp) == [nodeName |-> iface.nodeName, ip |-> iface.ip, bound |-> udp.bound]

\* interface->dmxPort()
dmxPort(iface) == IF iface.kind = "sacn" THEN SACN_PORT ELSE ARTNET_PORT

\* The universe a decoder listens to: the first universe of each protocol.
TargetUniverse(iface) == IF iface.kind = "sacn" THEN 1 ELSE 0

\* The datagram is a DMX data packet of the decoder's own protocol.
IsDmxFor(iface, d) ==
    \/ iface.kind = "artnet" /\ d.kind = "ArtDmx"
    \/ iface.kind = "sacn" /\ d.kind = "E131"

\* The DMX packet is accepted: right universe, slot count in range.
AcceptsDmx(iface, d) ==
    /\ IsDmxFor(iface, d)
    /\ d.universe = TargetUniverse(iface)
    /\ Len(d.levels) \in 1..UniverseSize

\* interface->readDMXPacket(&eUDP): the result code for datagram d.
readDMXPacketResult(iface, d) ==
    IF AcceptsDmx(iface, d) THEN RESULT_DMX_RECEIVED
    ELSE IF iface.kind = "artnet" /\ d.kind = "ArtPoll" THEN RESULT_PACKET_COMPLETE
    ELSE RESULT_NONE

\* interface->readDMXPacket(&eUDP): the decoder after datagram d.
readDMXPacketState(iface, d) ==
    IF AcceptsDmx(iface, d) THEN [iface EXCEPT !.levels = d.levels] ELSE iface

\* interface->numberOfSlots()
numberOfSlots(iface) == Len(iface.levels)

\* interface->getSlot(slot)
getSlot(iface, slot) == IF slot \in 1..Len(iface.levels) THEN iface.levels[slot] ELSE 0

\* ---------------------------------------------------------------- LXSerialDMX
\* Mutant of setSlot: a torn write, only the high nibble lands.
setSlotTorn(buf, slot, value) ==
    IF slot \in Slots
      THEN [buf EXCEPT ![slot] = (value \div 16) * 16 + (buf[slot] % 16)]
      ELSE buf

\* LXSerialDMX.setSlot(slot, value)
setSlot(buf, slot, value) == IF slot \in Slots THEN [buf EXCEPT ![slot] = value] ELSE buf

\* Mutant of the transmitter: it sends from a copy taken at the frame start.
TxByteSnapshot(buf, start, slot) == start[slot]

\* The byte the transmitter puts on the wire for a slot.
TxByte(buf, start, slot) == buf[slot]

\* -------------------------------------------------------------------- Init
ZeroBuffer == [s \in Slots |-> 0]

UnboundSocket == [bound |-> FALSE, port |-> 0, multicast |-> FALSE, binds |-> 0]

\* Mutant of the flag's initial value: USE_SACN whatever USE_MULTICAST is.
InitialUseMulticastSacn(sacn, mcast) == IF sacn THEN 1 ELSE 0

\* uint8_t use_multicast = USE_SACN (USE_MULTICAST defined) or 0
InitialUseMulticast(sacn, mcast) == IF mcast /\ sacn THEN 1 ELSE 0

InitProgram ==
    /\ pc = "setup_led"
    /\ monitorstate = LOW
    /\ use_multicast = InitialUseMulticast(USE_SACN, USE_MULTICAST)
    /\ ethernet = NoLease
    /\ interface = NullInterface
    /\ eUDP = UnboundSocket
    /\ directionPin = 0
    /\ outputStarted = FALSE
    /\ dmx = ZeroBuffer
    /\ result = RESULT_NONE
    /\ i = 0
    /\ sent = <<>>
    /\ txpos = 0
    /\ frame = <<>>
    /\ frameStart = ZeroBuffer
    /\ lastRead = <<0, 0, 0>>
    /\ lastWrite = ZeroBuffer
    /\ prior = ZeroBuffer
    /\ rx = NoHeader
    /\ repeat = FALSE
    /\ dhcpr = 0
    /\ reconfigured = FALSE
    /\ appliedOdd = FALSE

\* The sketch as configured in the source: DHCP, Art-Net, no multicast.
SourceConfig ==
    /\ USE_DHCP = TRUE
    /\ USE_SACN = FALSE
    /\ USE_MULTICAST = FALSE

AnyConfig ==
    /\ USE_DHCP \in BOOLEAN
    /\ USE_SACN \in BOOLEAN
    /\ USE_MULTICAST \in BOOLEAN

config == <<USE_DHCP, USE_SACN, USE_MULTICAST, traffic, script>>

history == <<frameStart, lastRead, lastWrite, prior, rx, repeat>>

\* Variables only loop() touches around the lease and the packet count.
local == <<dhcpr, reconfigured, appliedOdd>>

\* ------------------------------------------------------------------- setup()
\* pinMode(MONITOR_PIN, OUTPUT); blinkLED(); pinMode(SDSELECT_PIN, OUTPUT)
SetupLed ==
    /\ pc = "setup_led"
    /\ monitorstate' = blinkLED(monitorstate)
    /\ pc' = "setup_ethernet"
    /\ UNCHANGED <<config, history, local, inbox, use_multicast, ethernet, interface, eUDP,
                   directionPin, outputStarted, dmx, result, i, sent, txpos, frame>>

\* Ethernet.begin(mac) or Ethernet.begin(mac, ip, gateway, gateway, subnet_mask)
SetupEthernet ==
    /\ pc = "setup_ethernet"
    /\ IF USE_DHCP
         THEN \E k \in 1..MaxLease : ethernet' = Lease(k)
         ELSE ethernet' = StaticLease
    /\ pc' = "setup_interface"
    /\ UNCHANGED <<config, history, local, inbox, monitorstate, use_multicast, interface, eUDP,
                   directionPin, outputStarted, dmx, result, i, sent, txpos, frame>>

\* interface = new LXSACN() or new LXArtNet(...); use_multicast = 0
SetupInterface ==
    /\ pc = "setup_interface"
    /\ IF USE_SACN
         THEN /\ interface' = NewLXSACN
              /\ UNCHANGED use_multicast
         ELSE /\ interface' = NewLXArtNet(ethernet.ip, ethernet.mask)
              /\ use_multicast' = 0
    /\ pc' = "setup_udp"
    /\ UNCHANGED <<config, history, local, inbox, monitorstate, ethernet, eUDP,
                   directionPin, outputStarted, dmx, result, i, sent, txpos, frame>>

\* eUDP.begin(port) / eUDP.beginMulticast(group, port)
udpBegin(udp, port, multicast) ==
    [bound |-> TRUE, port |-> port, multicast |-> multicast, binds |-> udp.binds + 1]

SetupUdp ==
    /\ pc = "setup_udp"
    /\ IF use_multicast # 0
         THEN IF USE_MULTICAST
                THEN eUDP' = udpBegin(eUDP, dmxPort(interface), TRUE)
                ELSE UNCHANGED eUDP
         ELSE eUDP' = udpBegin(eUDP, dmxPort(interface), FALSE)
    /\ pc' = "setup_direction"
    /\ UNCHANGED <<config, history, local, inbox, monitorstate, use_multicast, ethernet, interface,
                   directionPin, outputStarted, dmx, result, i, sent, txpos, frame>>

\* LXSerialDMX.setDirectionPin(RXTX_PIN)
SetupDirectionPin ==
    /\ pc = "setup_direction"
    /\ directionPin' = RXTX_PIN
    /\ pc' = "setup_output"
    /\ UNCHANGED <<config, history, local, inbox, monitorstate, use_multicast, ethernet, interface,
                   eUDP, outputStarted, dmx, result, i, sent, txpos, frame>>

\* LXSerialDMX.startOutput()
SetupStartOutput ==
    /\ pc = "setup_output"
    /\ outputStarted' = TRUE
    /\ pc' = "setup_name"
    /\ UNCHANGED <<config, history, local, inbox, monitorstate, use_multicast, ethernet, interface,
                   eUDP, directionPin, dmx, result, i, sent, txpos, frame>>

\* Mutant of the protocol test: inverted.
IsArtNetInverted(sacn) == sacn

\* if ( ! USE_SACN )
IsArtNet(sacn) == ~sacn

\* if ( ! USE_SACN ) ((LXArtNet*)interface)->setNodeName("ArtNet2USART")
SetupNodeName ==
    /\ pc = "setup_name"
    /\ IF IsArtNet(USE_SACN)
         THEN /\ interface' = setNodeName(interface, "ArtNet2USART")
              /\ pc' = "setup_reply"
         ELSE /\ UNCHANGED interface
              /\ pc' = "setup_led2"
    /\ UNCHANGED <<config, history, local, inbox, monitorstate, use_multicast, ethernet,
                   eUDP, directionPin, outputStarted, dmx, result, i, sent, txpos, frame>>

\* ((LXArtNet*)interface)->send_art_poll_reply(&eUDP)
SetupPollReply ==
    /\ pc = "setup_reply"
    /\ sent' = Append(sent, PollReply(interface, eUDP))
    /\ pc' = "setup_led2"
    /\ UNCHANGED <<config, history, local, inbox, monitorstate, use_multicast, ethernet, interface,
                   eUDP, directionPin, outputStarted, dmx, result, i, txpos, frame>>

\* blinkLED(); setup() returns and loop() is entered
SetupDone ==
    /\ pc = "setup_led2"
    /\ monitorstate' = blinkLED(monitorstate)
    /\ pc' = "maintain"
    /\ UNCHANGED <<config, history, local, inbox, use_multicast, ethernet, interface, eUDP,
                   directionPin, outputStarted, dmx, result, i, sent, txpos, frame>>

SetupStep ==
    \/ SetupLed
    \/ SetupEthernet
    \/ SetupInterface
    \/ SetupUdp
    \/ SetupDirectionPin
    \/ SetupStartOutput
    \/ SetupNodeName
    \/ SetupPollReply
    \/ SetupDone

\* -------------------------------------------------------------------- loop()
\* Full-universe packets with every slot at the same level, plus noise.
FadeLevels == {[s \in Slots |-> v] : v \in Levels}

FadeTraffic ==
    [kind : {"ArtDmx", "E131"}, universe : Universes, levels : FadeLevels] \cup {ArtPoll, Junk}

\* Art-Net packets of every slot count raising their slots to full, and a poll.
RampTraffic ==
    {[kind |-> "ArtDmx", universe |-> 0, levels |-> [s \in 1..n |-> 255]] : n \in Slots}
        \cup {ArtPoll}

\* The datagrams senders on the network emit, by kind of traffic.
Traffic(t) ==
    IF t = "any" THEN Datagrams
    ELSE IF t = "fade" THEN FadeTraffic
    ELSE IF t = "ramp" THEN RampTraffic
    ELSE {}

\* The datagram readDMXPacket finds on the socket: the head of what was queued
\* at power-up, else whatever the network delivers, else nothing.
Pending ==
    IF ~eUDP.bound THEN {NoDatagram}
    ELSE IF inbox # <<>> THEN {Head(inbox)}
    ELSE Traffic(traffic) \cup {NoDatagram}

\* Mutant of the addressing test: the lease is maintained in every build.
UsesDhcpAlways(dhcp) == TRUE

\* if ( USE_DHCP )
UsesDhcp(dhcp) == dhcp

\* if ( USE_DHCP ) { uint8_t dhcpr = Ethernet.maintain(); ...
\* A successful renew or rebind leaves the stack with the lease it obtained.
Maintain ==
    /\ pc = "maintain"
    /\ prior' = dmx
    /\ rx' = NoHeader
    /\ repeat' = FALSE
    /\ IF UsesDhcp(USE_DHCP)
         THEN /\ \E code \in DhcpResults :
                   /\ dhcpr' = code
                   /\ IF (code = 2) \/ (code = 4)
                        THEN \E k \in 1..MaxLease : ethernet' = Lease(k)
                        ELSE UNCHANGED ethernet
              /\ pc' = "reconfigure"
         ELSE /\ UNCHANGED <<dhcpr, ethernet>>
              /\ pc' = "read"
    /\ UNCHANGED <<config, inbox, monitorstate, use_multicast, interface, eUDP,
                   directionPin, outputStarted, dmx, result, i, sent, txpos, frame,
                   frameStart, lastRead, lastWrite, reconfigured, appliedOdd>>

\* Mutant of the reconfiguration: address and mask are swapped.
ReconfiguredSwapped(iface, eth) == setLocalIP(iface, eth.mask, eth.ip)

\* ((LXArtNet*)interface)->setLocalIP(Ethernet.localIP(), Ethernet.subnetMask())
Reconfigured(iface, eth) == setLocalIP(iface, eth.ip, eth.mask)

\* ... if (( dhcpr == 4 ) || (dhcpr == 2)) { if ( ! USE_SACN ) { setLocalIP } } }
\* dhcpr goes out of scope at the end of the block.
Reconfigure ==
    /\ pc = "reconfigure"
    /\ IF RenewOrRebindSuccess(dhcpr) /\ ~USE_SACN
         THEN interface' = Reconfigured(interface, ethernet)
         ELSE UNCHANGED interface
    /\ reconfigured' = (RenewOrRebindSuccess(dhcpr) /\ ~USE_SACN)
    /\ dhcpr' = 0
    /\ pc' = "read"
    /\ UNCHANGED <<config, history, appliedOdd, inbox, monitorstate, use_multicast, ethernet,
                   eUDP, directionPin, outputStarted, dmx, result, i, sent, txpos, frame>>

\* Mutants of the result test: any non-empty result copies; every result copies.
ShouldCopyAnyPacket(r) == r # RESULT_NONE

ShouldCopyAlways(r) == TRUE

\* if ( result == RESULT_DMX_RECEIVED )
ShouldCopy(r) == r = RESULT_DMX_RECEIVED

\* for (int i = 1; ...
FirstSlot == 1

\* Mutants of the loop bound: one slot short; one slot too many.
LoopCondShort(k, n) == k < n

LoopCondLong(k, n) == k <= n + 1

\* ...; i <= interface->numberOfSlots(); ...
LoopCond(k, n) == k <= n

\* uint8_t result = interface->readDMXPacket(&eUDP); if ( result == ... )
ReadDMXPacket ==
    /\ pc = "read"
    /\ \E d \in Pending :
         /\ result' = readDMXPacketResult(interface, d)
         /\ interface' = readDMXPacketState(interface, d)
         /\ rx' = Header(d, AcceptsDmx(interface, d))
         /\ repeat' = /\ result = RESULT_DMX_RECEIVED
                      /\ AcceptsDmx(interface, d)
                      /\ d.levels = interface.levels
    /\ inbox' = IF eUDP.bound /\ inbox # <<>> THEN Tail(inbox) ELSE inbox
    /\ IF ShouldCopy(result')
         THEN pc' = "copy" /\ i' = FirstSlot
         ELSE pc' = "maintain" /\ UNCHANGED i
    /\ appliedOdd' = IF result' = RESULT_DMX_RECEIVED THEN ~appliedOdd ELSE appliedOdd
    /\ UNCHANGED <<config, monitorstate, use_multicast, ethernet, eUDP, directionPin,
                   outputStarted, dmx, sent, txpos, frame, dhcpr,
                   frameStart, lastRead, lastWrite, prior>>
    /\ reconfigured' = FALSE

\* Mutant of the copy statement: the level is added onto the slot.
CopyOneAdd(buf, iface, k) == setSlot(buf, k, (buf[k] + getSlot(iface, k)) % 256)

\* LXSerialDMX.setSlot(i , interface->getSlot(i))
CopyOne(buf, iface, k) == setSlot(buf, k, getSlot(iface, k))

\* Mutants of the increment: the index stays; the index skips a slot.
NextIndexStuck(k) == k

NextIndexSkip(k) == k + 2

\* ...; i++)
NextIndex(k) == k + 1

\* LXSerialDMX.setSlot(i, interface->getSlot(i)); i++
CopySlot ==
    /\ pc = "copy"
    /\ LoopCond(i, numberOfSlots(interface))
    /\ dmx' = CopyOne(dmx, interface, i)
    /\ lastWrite' = IF i \in Slots THEN [lastWrite EXCEPT ![i] = getSlot(interface, i)]
                    ELSE lastWrite
    /\ i' = NextIndex(i)
    /\ UNCHANGED <<config, local, inbox, pc, monitorstate, use_multicast, ethernet, interface,
                   eUDP, directionPin, outputStarted, result, sent, txpos, frame,
                   frameStart, lastRead, prior, rx, repeat>>

\* the for loop ends; blinkLED(); loop() returns
CopyDone ==
    /\ pc = "copy"
    /\ ~LoopCond(i, numberOfSlots(interface))
    /\ monitorstate' = blinkLED(monitorstate)
    /\ pc' = "maintain"
    /\ UNCHANGED <<config, history, local, inbox, use_multicast, ethernet, interface, eUDP,
                   directionPin, outputStarted, dmx, result, i, sent, txpos, frame>>

LoopStep ==
    \/ Maintain
    \/ Reconfigure
    \/ ReadDMXPacket
    \/ CopySlot
    \/ CopyDone

\* ------------------------------------------------------- USART transmitter
\* The interrupt sends the next data slot of the current frame.
TxSlot ==
    /\ outputStarted
    /\ txpos < UniverseSize
    /\ txpos' = txpos + 1
    /\ frame' = Append(frame, TxByte(dmx, frameStart, txpos + 1))
    /\ lastRead' = <<txpos + 1, TxByte(dmx, frameStart, txpos + 1), lastWrite[txpos + 1]>>
    /\ UNCHANGED <<config, local, inbox, pc, monitorstate, use_multicast, ethernet, interface,
                   eUDP, directionPin, outputStarted, dmx, result, i, sent,
                   frameStart, lastWrite, prior, rx, repeat>>

\* The frame is complete: break, mark after break and start code of the next.
TxBreak ==
    /\ outputStarted
    /\ txpos = UniverseSize
    /\ txpos' = 0
    /\ frame' = <<>>
    /\ frameStart' = dmx
    /\ UNCHANGED <<config, local, inbox, pc, monitorstate, use_multicast, ethernet, interface,
                   eUDP, directionPin, outputStarted, dmx, result, i, sent,
                   lastRead, lastWrite, prior, rx, repeat>>

TxStep ==
    \/ TxSlot
    \/ TxBreak

\* ------------------------------------------------------------ specifications
\* Three packets queued at power-up carrying 3, 1 and UniverseSize slots.
Scripts ==
    {<<[kind |-> "ArtDmx", universe |-> 0, levels |-> a],
       [kind |-> "ArtDmx", universe |-> 0, levels |-> b],
       [kind |-> "ArtDmx", universe |-> 0, levels |-> c]>> :
        a \in [1..3 -> Levels], b \in [1..1 -> Levels], c \in [1..4 -> Levels]}

\* Every configuration, both threads, uniform traffic.
Init ==
    /\ AnyConfig
    /\ traffic = "fade"
    /\ script = <<>>
    /\ inbox = script
    /\ InitProgram

Next ==
    \/ SetupStep
    \/ LoopStep
    \/ TxStep

Spec == Init /\ [][Next]_vars

\* The main thread alone, as configured in the source, any traffic.
InitLoop ==
    /\ SourceConfig
    /\ traffic = "any"
    /\ script = <<>>
    /\ inbox = script
    /\ InitProgram

NextMain ==
    \/ SetupStep
    \/ LoopStep

SpecLoop == InitLoop /\ [][NextMain]_vars

\* The main thread alone, fed a script of three packets and nothing else.
InitScript ==
    /\ SourceConfig
    /\ traffic = "none"
    /\ script \in Scripts
    /\ inbox = script
    /\ InitProgram

SpecScript == InitScript /\ [][NextMain]_vars

\* Both threads as configured in the source, packets of every slot count. The
\* processor always runs the main thread, and the USART raises its interrupt
\* whenever it can take another byte.
InitFair ==
    /\ SourceConfig
    /\ traffic = "ramp"
    /\ script = <<>>
    /\ inbox = script
    /\ InitProgram

SpecFair ==
    /\ InitFair
    /\ [][Next]_vars
    /\ WF_vars(SetupStep \/ LoopStep)
    /\ WF_vars(TxStep)

\* ==================================================================== claims
SetupDone_pcs == {"maintain", "reconfigure", "read", "copy"}

\* The iteration that just ended applied a DMX packet.
IterationApplied == pc = "maintain" /\ result = RESULT_DMX_RECEIVED

\* C1: after an iteration that processed a DMX packet of N slots for the
\* target universe, slots 1..N of the Channel Buffer equal the packet's levels
\* and every slot above N holds the value it had before the iteration.
C1_LastValueHeld ==
    IterationApplied =>
        /\ rx.count \in 1..UniverseSize
        /\ \A s \in Slots :
             dmx[s] = IF s <= rx.count THEN rx.levels[s] ELSE prior[s]

C1_Witness ==
    /\ IterationApplied
    /\ rx.count < UniverseSize
    /\ \E s \in Slots : s > rx.count /\ dmx[s] # 0
    /\ \E s \in Slots : s <= rx.count /\ dmx[s] # prior[s]

\* C2: an iteration whose readDMXPacket result is not DMXReceived makes no
\* setSlot call and leaves every slot of the Channel Buffer as it was.
C2_OnlyDmxMutates ==
    /\ pc = "copy" => result = RESULT_DMX_RECEIVED
    /\ (pc = "maintain" /\ result # RESULT_DMX_RECEIVED) => dmx = prior

C2_Witness ==
    /\ pc = "maintain"
    /\ result = RESULT_PACKET_COMPLETE
    /\ rx.kind = "ArtPoll"
    /\ dmx # ZeroBuffer

\* The datagram of this iteration is DMX data of the decoder's protocol.
RxIsDmx ==
    \/ interface.kind = "artnet" /\ rx.kind = "ArtDmx"
    \/ interface.kind = "sacn" /\ rx.kind = "E131"

\* C3: a DMX packet for a universe other than the target universe is not
\* reported as DMXReceived, starts no copy and leaves the Channel Buffer as
\* it was.
C3_WrongUniverseDiscarded ==
    (RxIsDmx /\ rx.universe # TargetUniverse(interface)) =>
        /\ result # RESULT_DMX_RECEIVED
        /\ pc # "copy"
        /\ dmx = prior

C3_Witness ==
    /\ pc = "maintain"
    /\ RxIsDmx
    /\ rx.universe # TargetUniverse(interface)
    /\ rx.count \in 1..UniverseSize
    /\ dmx # ZeroBuffer

\* C4: the copy loop is only entered with numberOfSlots() in 1..UniverseSize,
\* and a packet declaring 0 slots or more than UniverseSize slots starts no
\* copy and leaves the Channel Buffer as it was.
C4_SlotCountInRange ==
    /\ pc = "copy" => numberOfSlots(interface) \in 1..UniverseSize
    /\ (RxIsDmx /\ rx.count \notin 1..UniverseSize) =>
           /\ result # RESULT_DMX_RECEIVED
           /\ pc # "copy"
           /\ dmx = prior

C4_Witness ==
    /\ pc = "maintain"
    /\ RxIsDmx
    /\ rx.universe = TargetUniverse(interface)
    /\ rx.count = UniverseSize + 1
    /\ dmx # ZeroBuffer

C6_Idempotent ==
    (IterationApplied /\ repeat) => dmx = prior

C6_Witness ==
    /\ IterationApplied
    /\ repeat
    /\ rx.count < UniverseSize
    /\ dmx # ZeroBuffer
\* All three packets of the script have been read and the last is applied.
ScriptApplied == Len(script) = 3 /\ inbox = <<>> /\ pc = "maintain"

C10_OnePollReply ==
    (~USE_DHCP /\ ~USE_SACN) =>
        /\ Len(sent) <= 1
        /\ (pc \in SetupDone_pcs \cup {"setup_led2"}) => Len(sent) = 1
        /\ (pc \in {"setup_led", "setup_ethernet", "setup_interface", "setup_udp",
                    "setup_direction", "setup_output", "setup_name", "setup_reply"})
               => Len(sent) = 0
        /\ \A n \in 1..Len(sent) :
               /\ sent[n].nodeName = "ArtNet2USART"
               /\ sent[n].bound
               /\ sent[n].ip = IP_ADDRESS

C10_Witness ==
    /\ ~USE_DHCP
    /\ ~USE_SACN
    /\ pc = "read"
    /\ Len(sent) = 1
    /\ sent[1].nodeName = "ArtNet2USART"
\* C11: with Art-Net, whenever loop() is at or past readDMXPacket the
\* decoder's local address and subnet mask are the network stack's current
\* ones, so a renewed or rebound lease is in the decoder before the packet is
\* read; with sACN the decoder keeps the address fields it was built with.
C11_DecoderFollowsLease ==
    /\ (~USE_SACN /\ pc \in {"read", "copy"}) =>
           /\ interface.ip = ethernet.ip
           /\ interface.mask = ethernet.mask
    /\ (USE_SACN /\ pc \in SetupDone_pcs) =>
           /\ interface.ip = NewLXSACN.ip
           /\ interface.mask = NewLXSACN.mask
           /\ interface.nodeName = NewLXSACN.nodeName
           /\ ~reconfigured

\* The lease changed since the poll reply of setup() and the decoder has it.
C11_Witness ==
    /\ ~USE_SACN
    /\ pc = "read"
    /\ reconfigured
    /\ Len(sent) = 1
    /\ sent[1].ip # interface.ip
    /\ interface.ip = ethernet.ip

\* The lease status codes that report no success: nothing, renew failed,
\* rebind failed.
NoSuccess == {0, 1, 3}

\* C12: after Ethernet.maintain() reports no change, a failed renew or a
\* failed rebind, the stack keeps its address, loop() leaves the decoder's
\* address fields alone without calling setLocalIP and goes on to
\* readDMXPacket, and a packet read as DMX starts the copy.
C12_FailedLeaseKeepsAddress ==
    [][/\ (pc = "maintain" /\ pc' = "reconfigure" /\ dhcpr' \in NoSuccess) =>
              (ethernet' = ethernet /\ interface' = interface)
       /\ (pc = "reconfigure" /\ dhcpr \in NoSuccess) =>
              /\ interface' = interface
              /\ ethernet' = ethernet
              /\ pc' \in {"reconfigure", "read"}
              /\ ~reconfigured'
       /\ (pc = "read" /\ pc' # "read" /\ result' = RESULT_DMX_RECEIVED) => pc' = "copy"]_vars

\* A rebind has just failed on a bridge that already drives levels.
C12_Witness ==
    /\ ~USE_SACN
    /\ pc = "reconfigure"
    /\ dhcpr = 3
    /\ dmx # ZeroBuffer
\* C13: no step of loop() waits. Whatever status Ethernet.maintain() returned
\* and whatever readDMXPacket then returns, the iteration reaches its end; a
\* DMX packet whose copy started is applied in full, every slot count
\* included; and the transmitter goes on completing frames and starting new
\* ones for ever.
C13_NoBlocking ==
    /\ (pc = "reconfigure") ~> (pc = "maintain")
    /\ (pc = "copy") ~>
           (IterationApplied /\ \A s \in 1..rx.count : dmx[s] = rx.levels[s])
    /\ []<>(outputStarted /\ txpos = UniverseSize)
    /\ []<>(outputStarted /\ txpos = 0)

\* A packet shorter than the universe has been applied while a frame is
\* under way.
C13_Witness ==
    /\ IterationApplied
    /\ rx.count = 2
    /\ dmx[2] = 255
    /\ txpos = 3
\* C14: once setup() is over the indicator changes only in the step that ends
\* the copy of an iteration whose result was RESULT_DMX_RECEIVED, after all
\* the packet's slots are in the Channel Buffer, and that step always changes
\* it; the lease steps and an iteration with another result leave it alone.
C14_IndicatorPerDmxPacket ==
    [][/\ (pc \in SetupDone_pcs /\ monitorstate' # monitorstate) =>
              /\ pc = "copy"
              /\ pc' = "maintain"
              /\ result = RESULT_DMX_RECEIVED
              /\ \A s \in 1..rx.count : dmx[s] = rx.levels[s]
       /\ (pc = "copy" /\ pc' = "maintain") => monitorstate' # monitorstate
       /\ (pc = "read" /\ result' # RESULT_DMX_RECEIVED) =>
              (pc' = "maintain" /\ monitorstate' = monitorstate)]_vars

\* A full-universe packet has been applied and the indicator is lit.
C14_Witness ==
    /\ IterationApplied
    /\ monitorstate = HIGH
    /\ rx.count = UniverseSize
    /\ dmx[UniverseSize] = 255
    /\ prior[UniverseSize] = 0

\* C15: during the copy there is an index i such that the slots below i hold
\* the packet's levels and the slots from i on still hold the values they had
\* before the iteration; each copy step writes slot i alone and moves i up by
\* one, so the indexes 1..N are written once each, in increasing order.
C15_OrderedCopy ==
    /\ [](pc = "copy" =>
            /\ i \in 1..(numberOfSlots(interface) + 1)
            /\ \A s \in Slots :
                 dmx[s] = IF s < i THEN rx.levels[s] ELSE prior[s])
    /\ [][(pc = "copy" /\ pc' = "copy") =>
              /\ i' = i + 1
              /\ dmx'[i] = rx.levels[i]
              /\ \A s \in Slots \ {i} : dmx'[s] = dmx[s]]_vars

\* Half way through a packet of four slots: slot 1 is new, slot 3 still old.
C15_Witness ==
    /\ pc = "copy"
    /\ i = 3
    /\ rx.count = 4
    /\ dmx[1] # prior[1]
    /\ dmx[3] # rx.levels[3]
\* The positions of setup() after the socket was bound.
Bound_pcs == {"setup_direction", "setup_output", "setup_name", "setup_reply", "setup_led2"}

\* C16: once setup() has passed the bind, the decoder is the one variant the
\* configuration selects, the socket has been bound exactly once, on that
\* variant's port, multicast exactly when the variant is sACN and
\* USE_MULTICAST is defined, and the multicast flag is 0 with Art-Net; none
\* of this changes again. Before the bind the socket is unbound.
C16_OneSession ==
    /\ eUDP.binds <= 1
    /\ eUDP.bound <=> (eUDP.binds = 1)
    /\ (pc \in Bound_pcs \cup SetupDone_pcs) =>
           /\ interface.kind = IF USE_SACN THEN "sacn" ELSE "artnet"
           /\ TargetUniverse(interface) = IF USE_SACN THEN 1 ELSE 0
           /\ eUDP.bound
           /\ eUDP.port = dmxPort(interface)
           /\ eUDP.port = IF USE_SACN THEN SACN_PORT ELSE ARTNET_PORT
           /\ eUDP.multicast <=> (USE_SACN /\ USE_MULTICAST)
           /\ use_multicast = IF USE_SACN /\ USE_MULTICAST THEN 1 ELSE 0

\* A multicast sACN session that has applied packets.
C16_Witness ==
    /\ USE_SACN
    /\ USE_MULTICAST
    /\ pc = "read"
    /\ eUDP.multicast
    /\ eUDP.port = SACN_PORT
    /\ dmx # ZeroBuffer

\* C17: the link is up before the decoder exists, the decoder exists before
\* the socket is bound, the socket is bound before the direction pin is set,
\* and the pin is set before output starts; loop() runs, reads and copies only
\* with all of that done, and the Channel Buffer is untouched until then.
C17_StartupOrder ==
    /\ (interface.kind # "null") => ethernet.up
    /\ eUDP.bound => (interface.kind # "null")
    /\ (directionPin # 0) => eUDP.bound
    /\ outputStarted => (directionPin = RXTX_PIN)
    /\ (pc \in SetupDone_pcs) => (eUDP.bound /\ directionPin = RXTX_PIN /\ outputStarted)
    /\ (dmx # ZeroBuffer) => (directionPin = RXTX_PIN /\ outputStarted)

\* The first setSlot of a unicast sACN session is about to be issued.
C17_Witness ==
    /\ USE_SACN
    /\ ~USE_MULTICAST
    /\ pc = "copy"
    /\ i = 1
    /\ dmx = ZeroBuffer
    /\ eUDP.bound
    /\ outputStarted

\* C18: the indicator is only ever LOW or HIGH; setup() lights it on entry
\* and puts it out when it returns; from then on, outside the copy, it is
\* HIGH exactly when an odd number of DMX packets has been received, and
\* during a copy it still shows the parity of the packets before.
C18_IndicatorParity ==
    /\ monitorstate \in {LOW, HIGH}
    /\ (pc = "setup_led") => (monitorstate = LOW)
    /\ (pc \notin SetupDone_pcs /\ pc # "setup_led") => (monitorstate = HIGH)
    /\ (pc \in {"maintain", "reconfigure", "read"}) =>
           (monitorstate = IF appliedOdd THEN HIGH ELSE LOW)
    /\ (pc = "copy") => (monitorstate = IF appliedOdd THEN LOW ELSE HIGH)

\* Two packets in: the indicator is dark again and levels are set.
C18_Witness ==
    /\ pc = "maintain"
    /\ result = RESULT_DMX_RECEIVED
    /\ ~appliedOdd
    /\ monitorstate = LOW
    /\ dmx # ZeroBuffer

\* C19: an iteration runs the lease block, when DHCP is used, then one
\* readDMXPacket, then the copy if there is one, and ends; the read is
\* entered from the lease block alone and never repeated within the
\* iteration. With a static address the lease block is skipped: no lease
\* status is taken, and neither the stack's nor the decoder's address changes
\* after setup().
C19_LeaseThenOneRead ==
    [][/\ (pc = "maintain" /\ pc' # pc) =>
              (pc' = IF USE_DHCP THEN "reconfigure" ELSE "read")
       /\ (pc = "reconfigure" /\ pc' # pc) => (pc' = "read")
       /\ (pc = "read" /\ pc' # pc) => (pc' \in {"copy", "maintain"})
       /\ (pc = "read") => (pc' # "read" \/ (result' = result /\ interface' = interface))
       /\ (pc = "copy" /\ pc' # pc) => (pc' = "maintain")
       /\ (pc # "read" /\ pc' = "read") =>
              (pc = IF USE_DHCP THEN "reconfigure" ELSE "maintain")
       /\ (~USE_DHCP /\ pc \in SetupDone_pcs) =>
              /\ pc' # "reconfigure"
              /\ dhcpr' = 0
              /\ ethernet' = ethernet
              /\ ethernet = StaticLease
              /\ interface'.ip = interface.ip
              /\ interface'.mask = interface.mask]_vars

\* A statically addressed Art-Net bridge has applied packets and reads again.
C19_Witness ==
    /\ ~USE_DHCP
    /\ ~USE_SACN
    /\ pc = "read"
    /\ interface.ip = IP_ADDRESS
    /\ dmx # ZeroBuffer
    /\ appliedOdd
====
